---- MODULE Spec2Model ----
(***************************************************************************)
(* State-machine model of the agent's conversation engine (ChatManager, in *)
(* its two source versions), of the HTTP server that drives it, and of the *)
(* training workflow (XappTrainer / ensureToolTriggered).                  *)
(*                                                                         *)
(* Every await of the source is a step of its own: the answer of the       *)
(* retrieval service, of the language model, of the tool service and of    *)
(* the outcome-recording service is an input chosen with \E at that step,  *)
(* "throw" included.                                                       *)
(*                                                                         *)
(* SpecBackup and SpecMain run the server on ChatManager_backup_1.ts and   *)
(* on ChatManager.ts with one request at a time, SpecConcurrent lets a     *)
(* second request in at the awaits of the first, SpecTrain runs the        *)
(* training workflow, and SpecArguments takes the arguments of one tool    *)
(* call through parseToolArguments, the reconciler and fixToolArguments.   *)
(* SpecUnbounded is ChatManager.ts with the recursion of handleToolCalls   *)
(* left open, under weak fairness of the steps of a turn.                  *)
(***************************************************************************)
EXTENDS Integers, Sequences, FiniteSets, TLC

\* ------------------------------------------------------------------ bounds

\* Turns accepted after construction.
MaxTurns == 2

\* Depth of the handleToolCalls recursion of ChatManager.ts.
MaxDepth == 2

\* Times the event loop leaves one request for the other.
MaxSwitches == 2

\* Messages of the history that are followed where the recursion of
\* handleToolCalls is not cut at MaxDepth: the most recent ones.
MaxHistory == 4

\* ------------------------------------------------------- program constants

\* compressHistory(maxMessages = 10)
maxMessages == 10

\* doc._additional?.certainty >= 0.75, in hundredths
CertaintyThreshold == 75

\* ensureToolTriggered(..., retry: number = 3)
retry == 3

\* ------------------------------------------------------------------ inputs

T1 == "get_kpi_status"
T2 == "snapshot_save"

\* A tool-call request of the model: toolCall.function.{name, arguments}.
Call(n, a) == [name |-> n, arguments |-> a]

\* The tool_calls a model reply may carry (<<>>: none).
Batches ==
  { <<>>,
    <<Call(T1, "a1")>>,
    <<Call(T1, "a2")>>,
    <<Call(T1, "a1"), Call(T2, "a1")>> }

\* A document of recallRes.data.selected_docs is its certainty in hundredths;
\* NoCertainty is a document without _additional.certainty.
NoCertainty == -1

DocLists == { <<>>, <<60>>, <<75>>, <<NoCertainty>>, <<60, 90>> }

\* What toolManager.callTool resolves to: a result, a result whose text
\* contains "Error", or undefined.
ToolOutcomes == {"ok", "error", "undefined"}

\* What a request throws: "conn" is a refused connection (cause.code =
\* ECONNREFUSED), "reset" a connection that is lost in another way (reset,
\* timed out, host not found: another cause.code or none), "other" anything
\* else.
Exceptions == {"conn", "reset", "other"}

\* The failures at the connection level.
ConnectionLevel == {"conn", "reset"}

\* ---------------------------------------------------------------- messages

Last(q) == q[Len(q)]

Range(q) == {q[k] : k \in 1..Len(q)}

SeedPrompt == "seed"
AlphaPrompt == "alpha_only prompt"
FullPrompt == "full_tool_mode prompt"

\* own: the message was appended by the turn in progress (or by the last
\* turn, until the next one starts); it is not a field of OllamaMessage.
Msg(r, c, id, o) == [role |-> r, content |-> c, tool_call_id |-> id, own |-> o]

SystemMsg(c) == Msg("system", c, "", FALSE)
UserMsg == Msg("user", "input", "", TRUE)
ContextMsg == Msg("system", "context", "", TRUE)
AssistantMsg == Msg("assistant", "reply", "", TRUE)
ToolMsg(name, c) == Msg("tool", c, name, TRUE)
SummaryMsg == Msg("system", "summary", "", TRUE)

Older(s) == [i \in 1..Len(s) |-> [s[i] EXCEPT !.own = FALSE]]

\* Array.prototype.pop: removes the LAST element (nothing when empty).
Pop(s) == IF s = <<>> THEN s ELSE SubSeq(s, 1, Len(s) - 1)

\* Array.prototype.slice(-n)
SliceLast(s, n) == IF Len(s) <= n THEN s ELSE SubSeq(s, Len(s) - n + 1, Len(s))

\* compressHistory with  >=  for  > : at exactly maxMessages the summary is
\* put in front and nothing is folded into it.
compressHistory_atThreshold(s) ==
  IF Len(s) >= maxMessages
    THEN <<SummaryMsg>> \o SliceLast(s, maxMessages)
    ELSE s

\* compressHistory keeping slice(0, maxMessages) for slice(-maxMessages): the
\* oldest messages stay and the newest are folded into the summary.
compressHistory_head(s) ==
  IF Len(s) > maxMessages
    THEN <<SummaryMsg>> \o SubSeq(s, 1, maxMessages)
    ELSE s

\* ChatManager_backup_1.compressHistory
compressHistory(s) ==
  IF Len(s) > maxMessages
    THEN <<SummaryMsg>> \o SliceLast(s, maxMessages)
    ELSE s

\* The documents kept by processUserInput: the backup filters by certainty
\* (undefined >= 0.75 is false), ChatManager.ts keeps every document.
relatedDocs(version, docs) ==
  IF version = "backup"
    THEN SelectSeq(docs, LAMBDA d : d # NoCertainty /\ d >= CertaintyThreshold)
    ELSE docs

\* reset(): the backup re-seeds the system prompt, ChatManager.ts empties.
reset(version) ==
  IF version = "backup" THEN <<SystemMsg(SeedPrompt)>> ELSE <<>>

\* The constructor: ChatManager.ts seeds its prompt inline, the backup calls
\* reset().
constructed(version) == <<SystemMsg(SeedPrompt)>>

\* ------------------------------------------------- mode and turn outcome

Modes == {"full_tool_mode", "alpha_only"}

PromptOf(m) == IF m = "alpha_only" THEN AlphaPrompt ELSE FullPrompt

\* setSystemPromptMode(mode): clears the history and seeds the mode's prompt.
setSystemPromptMode(m) == <<SystemMsg(PromptOf(m))>>

\* The tool catalog of a model call: empty in the tool-forbidding mode.
Catalog(m) == IF m = "alpha_only" THEN {} ELSE {T1, T2}

\* The replies the model can give when offered the catalog c: it requests
\* only tools that were declared callable.
RepliesFor(c) == {b \in Batches : \A k \in 1..Len(b) : b[k].name \in c}

IsTool(m) == m.role = "tool"

\* TurnOutcome.toolResults: the tool messages after position n, n being the
\* length of the history when the turn started.
toolResults(n, s) ==
  IF Len(s) <= n THEN <<>> ELSE SelectSeq(SubSeq(s, n + 1, Len(s)), IsTool)

\* last?.content || "(No response)"
replyOf(s) == IF s = <<>> THEN "(No response)" ELSE s[Len(s)].content

TurnOutcome(n, s) == [reply |-> replyOf(s), toolResults |-> toolResults(n, s)]

NoOutcome == [reply |-> "", toolResults |-> <<>>]

\* ------------------------------------------------------------------- state

VARIABLES
  version,         \* which ChatManager source is built: "main" or "backup"
  messages,        \* ChatManager.messages
  toolUsageFlag,   \* ChatManager.toolUsageFlag (backup)
  toolErrorCount,  \* ChatManager.toolErrorCount (backup)
  mode,            \* the system prompt mode
  pc,              \* where the turn in progress is suspended
  toolCalls,       \* handleToolCalls: the batch being processed
  idx,             \* handleToolCalls: position of the for loop in the batch
  depth,           \* handleToolCalls: recursion depth
  recalled,        \* the documents the recall request returned, until the
                   \* first model call answers
  before,          \* the history when the turn in progress started
  events,          \* outcome events recorded by the turn
  invoked,         \* names of the tools invoked by the turn
  offered,         \* catalogs of the model calls since the last mode switch
  outcome,         \* what handleUserInput returned
  turns,           \* turns started since construction
  http,            \* status of the last HTTP response
  lastOp,          \* the endpoint that gave it
  failures,        \* what the requests of the turn threw, and where
  callResults,     \* what the tool invocations of the turn resolved to
  invokedCalls     \* the tool calls the turn invoked, arguments included

engineVars ==
  <<version, messages, toolUsageFlag, toolErrorCount, mode, pc, toolCalls, idx,
    depth, recalled, before, events, invoked, offered, outcome, turns, http,
    lastOp, failures, callResults, invokedCalls>>


VARIABLES
  wf,        \* where trainXappFlow is suspended
  step,      \* index of the step of the for loop
  prompt,    \* index of the prompt of the step
  attempt,   \* ensureToolTriggered: i
  calls,     \* handleUserInput calls made for the current prompt
  wfResult,  \* toolResults of the last turn of the workflow
  wfError,   \* the error trainXappFlow threw
  resolved,  \* entries of the script left behind, in order
  fired,     \* expected tools seen triggered, in order
  lastSent,  \* <<step, prompt>> of the last prompt sent
  delays     \* the steps before which the 10 minutes were waited, in order

wfVars ==
  <<wf, step, prompt, attempt, calls, wfResult, wfError, resolved, fired, lastSent,
    delays>>

\* The server holds one ChatManager for every request, and a handler that
\* awaits leaves the event loop to the next request: parked holds the locals
\* of the one other request whose handler is idle or suspended at an await,
\* while pc ... outcome are the locals of the request that runs.
VARIABLES
  parked,    \* the locals of the other request
  switches   \* times the event loop went from one request to the other

reqVars == <<parked, switches>>

\* The arguments of one tool call on their way through the body of the for
\* loop of handleToolCalls.
VARIABLES
  stage,      \* how far the call has come
  tool,       \* toolCall.function.name
  rawArgs,    \* toolCall.function.arguments
  args,       \* what parseToolArguments returned
  mappings,   \* what suggestParameterMapping returned
  fixedArgs,  \* what fixToolArguments returned
  prevFixed,  \* fixedArgs of the round before
  round,      \* rounds of reconciliation started
  sent        \* the calls that reached toolManager.callTool

argVars ==
  <<stage, tool, rawArgs, args, mappings, fixedArgs, prevFixed, round, sent>>

\* The locals of a request: those of the turn its handler runs.
Locals(p, tc, i, d, rc, b, ev, inv, out, fl, rs, ic) ==
  [pc |-> p, toolCalls |-> tc, idx |-> i, depth |-> d, recalled |-> rc,
   before |-> b, events |-> ev, invoked |-> inv, outcome |-> out,
   failures |-> fl, callResults |-> rs, invokedCalls |-> ic]

IdleLocals ==
  Locals("idle", <<>>, 0, 0, <<>>, <<>>, <<>>, <<>>, NoOutcome, <<>>, <<>>, <<>>)

InitEngine(v) ==
  /\ version = v
  /\ messages = constructed(v)
  /\ toolUsageFlag = FALSE
  /\ toolErrorCount = 0
  /\ mode = "full_tool_mode"
  /\ pc = "idle"
  /\ toolCalls = <<>>
  /\ idx = 0
  /\ depth = 0
  /\ recalled = <<>>
  /\ before = <<>>
  /\ events = <<>>
  /\ invoked = <<>>
  /\ offered = {}
  /\ outcome = NoOutcome
  /\ turns = 0
  /\ http = 0
  /\ lastOp = "none"
  /\ failures = <<>>
  /\ callResults = <<>>
  /\ invokedCalls = <<>>
  /\ parked = IdleLocals
  /\ switches = 0

\* ------------------------------------------------------------ the turn

\* The request a turn suspended at pc awaits throws e.
Failure(e) == [at |-> pc, kind |-> e]

\* processUserInput's catch: this.messages.pop(); throw error.
Catch ==
  /\ \E e \in Exceptions : failures' = Append(failures, Failure(e))
  /\ messages' = Pop(messages)
  /\ pc' = "threw"
  /\ outcome' = NoOutcome
  /\ UNCHANGED <<version, toolUsageFlag, toolErrorCount, mode, toolCalls, idx,
                 depth, recalled, before, events, invoked, offered, turns, http, lastOp>>

\* processUserInput (and every handleToolCalls frame above it) returns
\* normally; handleUserInput builds its result.
Return(msgs) ==
  /\ messages' = msgs
  /\ pc' = "returned"
  /\ outcome' = TurnOutcome(Len(before), msgs)

\* handleUserInput without lines 95-96: the counters keep the values the
\* turn before left.
handleUserInput_noClear ==
  /\ pc = "idle"
  /\ turns < MaxTurns
  /\ turns' = turns + 1
  /\ before' = Older(messages)
  /\ messages' = Older(messages) \o <<UserMsg>>
  /\ events' = <<>>
  /\ invoked' = <<>>
  /\ outcome' = NoOutcome
  /\ pc' = "recall"
  /\ recalled' = <<>>
  /\ failures' = <<>>
  /\ callResults' = <<>>
  /\ invokedCalls' = <<>>
  /\ UNCHANGED <<version, toolUsageFlag, toolErrorCount, mode, toolCalls, idx,
                 depth, offered, http, lastOp>>
  /\ UNCHANGED <<wfVars, reqVars, argVars>>

\* POST /api/chat -> handleUserInput -> processUserInput, up to the recall
\* request: the counters are cleared (backup) and the user message pushed.
handleUserInput ==
  /\ pc = "idle"
  /\ turns < MaxTurns
  /\ turns' = turns + 1
  /\ toolUsageFlag' = FALSE
  /\ toolErrorCount' = 0
  /\ before' = Older(messages)
  /\ messages' = Older(messages) \o <<UserMsg>>
  /\ events' = <<>>
  /\ invoked' = <<>>
  /\ outcome' = NoOutcome
  /\ pc' = "recall"
  /\ recalled' = <<>>
  /\ failures' = <<>>
  /\ callResults' = <<>>
  /\ invokedCalls' = <<>>
  /\ UNCHANGED <<version, mode, toolCalls, idx, depth, offered, http, lastOp>>
  /\ UNCHANGED <<wfVars, reqVars, argVars>>

\* The recall request answers (or throws): the context message is pushed
\* when a document is kept.
Recall ==
  /\ pc = "recall"
  /\ \/ \E docs \in DocLists :
          /\ messages' = IF relatedDocs(version, docs) # <<>>
                           THEN Append(messages, ContextMsg)
                           ELSE messages
          /\ recalled' = docs
          /\ pc' = "chat"
          /\ UNCHANGED <<version, toolUsageFlag, toolErrorCount, mode, toolCalls,
                         idx, depth, before, events, invoked, offered, outcome,
                         turns, http, lastOp, failures>>
     \/ Catch
  /\ UNCHANGED <<wfVars, reqVars, argVars>>
  /\ UNCHANGED <<callResults, invokedCalls>>

\* recordResult("...", true) for the reply without tool calls.
noToolSuccess_true == TRUE

\* await this.recordResult("...", false) of the reply without tool calls
noToolSuccess == FALSE

\* The body of the record_result request (recordResult, lines 79-90).
recordResult(succ, flag, errors) ==
  [success |-> succ, tool_used |-> flag, tool_errors |-> errors]

\* The first model call answers (or throws). A reply with tool calls starts
\* handleToolCalls; one without sends the record_result request (backup) or
\* ends the turn (ChatManager.ts).
FirstChat ==
  /\ pc = "chat"
  /\ offered' = offered \cup {Catalog(mode)}
  /\ \/ \E b \in RepliesFor(Catalog(mode)) :
          /\ UNCHANGED failures
          /\ IF b # <<>>
               THEN /\ messages' = Append(messages, AssistantMsg)
                    /\ toolUsageFlag' = (version = "backup")
                    /\ toolCalls' = b
                    /\ idx' = 1
                    /\ depth' = 1
                    /\ pc' = "tools"
                    /\ UNCHANGED <<events, outcome>>
               ELSE /\ UNCHANGED <<toolUsageFlag, toolCalls, idx, depth>>
                    /\ IF version = "backup"
                         THEN /\ messages' = Append(messages, AssistantMsg)
                              /\ events' = Append(events,
                                   recordResult(noToolSuccess, toolUsageFlag,
                                                toolErrorCount))
                              /\ pc' = "record"
                              /\ UNCHANGED outcome
                         ELSE /\ Return(Append(messages, AssistantMsg))
                              /\ UNCHANGED events
     \/ \E e \in Exceptions :
          /\ failures' = Append(failures, Failure(e))
          /\ messages' = Pop(messages)
          /\ pc' = "threw"
          /\ outcome' = NoOutcome
          /\ UNCHANGED <<toolUsageFlag, toolCalls, idx, depth, events>>
  /\ recalled' = <<>>
  /\ UNCHANGED <<version, toolErrorCount, mode, before, invoked, turns, http,
                 lastOp>>
  /\ UNCHANGED <<wfVars, reqVars, argVars>>
  /\ UNCHANGED <<callResults, invokedCalls>>

\* After a tool call of the batch: the next one, or the follow-up call.
NextInBatch == IF idx = Len(toolCalls) THEN "final" ELSE "tools"

\* CallTool without  if (result) : a tool message is pushed for an undefined
\* result as well.
CallTool_noResultCheck ==
  /\ pc = "tools"
  /\ version = "backup"
  /\ \/ \E o \in ToolOutcomes :
          /\ invoked' = Append(invoked, toolCalls[idx].name)
          /\ callResults' = Append(callResults, o)
          /\ invokedCalls' = Append(invokedCalls, toolCalls[idx])
          /\ messages' = Append(messages, ToolMsg(toolCalls[idx].name, o))
          /\ toolErrorCount' = IF o = "error" THEN toolErrorCount + 1
                                              ELSE toolErrorCount
          /\ pc' = NextInBatch
          /\ idx' = idx + 1
          /\ UNCHANGED <<version, toolUsageFlag, mode, toolCalls, depth, recalled,
                         before, events, offered, outcome, turns, http, lastOp,
                         failures>>
     \/ Catch /\ UNCHANGED <<callResults, invokedCalls>>
  /\ UNCHANGED <<wfVars, reqVars, argVars>>

\* ChatManager_backup_1.handleToolCalls, one callTool of the for loop.
CallTool ==
  /\ pc = "tools"
  /\ version = "backup"
  /\ \/ \E o \in ToolOutcomes :
          /\ invoked' = Append(invoked, toolCalls[idx].name)
          /\ callResults' = Append(callResults, o)
          /\ invokedCalls' = Append(invokedCalls, toolCalls[idx])
          /\ messages' = IF o = "undefined"
                           THEN messages
                           ELSE Append(messages, ToolMsg(toolCalls[idx].name, o))
          /\ toolErrorCount' = IF o = "error" THEN toolErrorCount + 1
                                              ELSE toolErrorCount
          /\ pc' = NextInBatch
          /\ idx' = idx + 1
          /\ UNCHANGED <<version, toolUsageFlag, mode, toolCalls, depth, recalled,
                         before, events, offered, outcome, turns, http, lastOp,
                         failures>>
     \/ Catch /\ UNCHANGED <<callResults, invokedCalls>>
  /\ UNCHANGED <<wfVars, reqVars, argVars>>

\* ChatManager_backup_1.handleToolCalls, the follow-up model call: its reply
\* is pushed and the record_result request sent.
FinalChat ==
  /\ pc = "final"
  /\ version = "backup"
  /\ offered' = offered \cup {Catalog(mode)}
  /\ \/ /\ messages' = Append(messages, AssistantMsg)
        /\ events' = Append(events,
             recordResult(TRUE, toolUsageFlag, toolErrorCount))
        /\ pc' = "record"
        /\ UNCHANGED <<outcome, failures>>
     \/ \E e \in Exceptions :
          /\ failures' = Append(failures, Failure(e))
          /\ messages' = Pop(messages)
          /\ pc' = "threw"
          /\ outcome' = NoOutcome
          /\ UNCHANGED events
  /\ UNCHANGED <<version, toolUsageFlag, toolErrorCount, mode, toolCalls, idx,
                 depth, recalled, before, invoked, turns, http, lastOp>>
  /\ UNCHANGED <<wfVars, reqVars, argVars>>
  /\ UNCHANGED <<callResults, invokedCalls>>

\* The record_result request answers (or throws); then compressHistory and
\* the return of handleUserInput, which have no await between them.
RecordResult ==
  /\ pc = "record"
  /\ \/ /\ Return(compressHistory(messages))
        /\ UNCHANGED <<version, toolUsageFlag, toolErrorCount, mode, toolCalls,
                       idx, depth, recalled, before, events, invoked, offered,
                       turns, http, lastOp, failures>>
     \/ Catch
  /\ UNCHANGED <<wfVars, reqVars, argVars>>
  /\ UNCHANGED <<callResults, invokedCalls>>

\* ChatManager.ts handleToolCalls: the new tool calls differ from the failed
\* one in name or in arguments (lines 252-257).
hasNewToolCalls(newToolCalls, toolCall) ==
  \E k \in 1..Len(newToolCalls) :
     \/ newToolCalls[k].name # toolCall.name
     \/ newToolCalls[k].arguments # toolCall.arguments

\* ChatManager.ts handleToolCalls: some new call names a tool that the batch
\* did not (lines 308-313).
hasNewTools(newToolCalls, previous) ==
  \E k \in 1..Len(newToolCalls) :
     \A j \in 1..Len(previous) : previous[j].name # newToolCalls[k].name

\* An exception leaves handleToolCalls: a connection-level one, or any one at
\* depth 1, reaches processUserInput's catch; another one is caught and logged
\* by the frame that made the recursive call, which then returns.
Escapes(e, d) == e = "conn" \/ d = 1

\* ChatManager.ts handleToolCalls, one callTool of the for loop. A result with
\* an error pushes the detailed error message and asks the model again.
CallToolMain ==
  /\ pc = "tools"
  /\ version = "main"
  /\ \/ \E o \in ToolOutcomes :
          /\ invoked' = Append(invoked, toolCalls[idx].name)
          /\ callResults' = Append(callResults, o)
          /\ invokedCalls' = Append(invokedCalls, toolCalls[idx])
          /\ messages' = IF o = "undefined"
                           THEN messages
                           ELSE Append(messages, ToolMsg(toolCalls[idx].name, o))
          /\ pc' = IF o = "error" THEN "repair" ELSE NextInBatch
          /\ idx' = IF o = "error" THEN idx ELSE idx + 1
          /\ UNCHANGED <<outcome, failures>>
     \/ \E e \in Exceptions :
          /\ failures' = Append(failures, Failure(e))
          /\ IF Escapes(e, depth)
               THEN /\ messages' = Pop(messages)
                    /\ pc' = "threw"
                    /\ outcome' = NoOutcome
               ELSE Return(messages)
          /\ UNCHANGED <<invoked, callResults, invokedCalls, idx>>
  /\ UNCHANGED <<version, toolUsageFlag, toolErrorCount, mode, toolCalls, depth,
                 recalled, before, events, offered, turns, http, lastOp>>
  /\ UNCHANGED <<wfVars, reqVars, argVars>>

\* ChatManager.ts handleToolCalls, the model call after a tool error (lines
\* 238-278): recursion on calls that differ from the failed one, else return.
RepairChat ==
  /\ pc = "repair"
  /\ offered' = offered \cup {Catalog(mode)}
  /\ \/ \E b \in RepliesFor(Catalog(mode)) :
          /\ UNCHANGED failures
          /\ IF b # <<>> /\ hasNewToolCalls(b, toolCalls[idx])
               THEN /\ depth < MaxDepth
                    /\ messages' = Append(messages, AssistantMsg)
                    /\ toolCalls' = b
                    /\ idx' = 1
                    /\ depth' = depth + 1
                    /\ pc' = "tools"
                    /\ UNCHANGED outcome
               ELSE /\ Return(Append(messages, AssistantMsg))
                    /\ UNCHANGED <<toolCalls, idx, depth>>
     \/ \E e \in Exceptions :
          /\ failures' = Append(failures, Failure(e))
          /\ IF e = "conn"
               THEN /\ messages' = Pop(messages)
                    /\ pc' = "threw"
                    /\ outcome' = NoOutcome
               ELSE Return(messages)
          /\ UNCHANGED <<toolCalls, idx, depth>>
  /\ UNCHANGED <<version, toolUsageFlag, toolErrorCount, mode, recalled, before,
                 events, invoked, turns, http, lastOp>>
  /\ UNCHANGED <<wfVars, reqVars, argVars>>
  /\ UNCHANGED <<callResults, invokedCalls>>

\* ChatManager.ts handleToolCalls, the final response of a batch (lines
\* 290-328): recursion when the reply names a tool the batch did not.
FinalChatMain ==
  /\ pc = "final"
  /\ version = "main"
  /\ offered' = offered \cup {Catalog(mode)}
  /\ \/ \E b \in RepliesFor(Catalog(mode)) :
          /\ UNCHANGED failures
          /\ IF b # <<>> /\ hasNewTools(b, toolCalls)
               THEN /\ depth < MaxDepth
                    /\ messages' = Append(messages, AssistantMsg)
                    /\ toolCalls' = b
                    /\ idx' = 1
                    /\ depth' = depth + 1
                    /\ pc' = "tools"
                    /\ UNCHANGED outcome
               ELSE /\ Return(Append(messages, AssistantMsg))
                    /\ UNCHANGED <<toolCalls, idx, depth>>
     \/ \E e \in Exceptions :
          /\ failures' = Append(failures, Failure(e))
          /\ IF e = "conn"
               THEN /\ messages' = Pop(messages)
                    /\ pc' = "threw"
                    /\ outcome' = NoOutcome
               ELSE Return(messages)
          /\ UNCHANGED <<toolCalls, idx, depth>>
  /\ UNCHANGED <<version, toolUsageFlag, toolErrorCount, mode, recalled, before,
                 events, invoked, turns, http, lastOp>>
  /\ UNCHANGED <<wfVars, reqVars, argVars>>
  /\ UNCHANGED <<callResults, invokedCalls>>

\* ------------------------------------------- the recursion without a cut
\*
\* handleToolCalls of ChatManager.ts calls itself at lines 260 and 316 and
\* nothing in it counts the calls. Its branches read the batch, the result of
\* the tool and the reply of the model, never the history, and every frame
\* above the first does the same with an exception (Escapes). The three
\* actions below are CallToolMain, RepairChat and FinalChatMain with the
\* recursion left open: the depth is counted up to MaxDepth and stays there,
\* the history is followed by its last MaxHistory messages, and the records
\* of the turn (invoked, callResults, invokedCalls, failures) are not kept.

\* this.messages.push(m), followed by the most recent messages.
Push(s, m) == SliceLast(Append(s, m), MaxHistory)

\* One more frame of handleToolCalls.
Deeper(d) == IF d < MaxDepth THEN d + 1 ELSE d

CallToolUnbounded ==
  /\ pc = "tools"
  /\ version = "main"
  /\ \/ \E o \in ToolOutcomes :
          /\ messages' = IF o = "undefined"
                           THEN messages
                           ELSE Push(messages, ToolMsg(toolCalls[idx].name, o))
          /\ pc' = IF o = "error" THEN "repair" ELSE NextInBatch
          /\ idx' = IF o = "error" THEN idx ELSE idx + 1
          /\ UNCHANGED outcome
     \/ \E e \in Exceptions :
          /\ IF Escapes(e, depth)
               THEN /\ messages' = Pop(messages)
                    /\ pc' = "threw"
                    /\ outcome' = NoOutcome
               ELSE Return(messages)
          /\ UNCHANGED idx
  /\ UNCHANGED <<version, toolUsageFlag, toolErrorCount, mode, toolCalls, depth,
                 recalled, before, events, invoked, offered, turns, http, lastOp,
                 failures, callResults, invokedCalls>>
  /\ UNCHANGED <<wfVars, reqVars, argVars>>

RepairChatUnbounded ==
  /\ pc = "repair"
  /\ offered' = offered \cup {Catalog(mode)}
  /\ \/ \E b \in RepliesFor(Catalog(mode)) :
          IF b # <<>> /\ hasNewToolCalls(b, toolCalls[idx])
            THEN /\ messages' = Push(messages, AssistantMsg)
                 /\ toolCalls' = b
                 /\ idx' = 1
                 /\ depth' = Deeper(depth)
                 /\ pc' = "tools"
                 /\ UNCHANGED outcome
            ELSE /\ Return(Push(messages, AssistantMsg))
                 /\ UNCHANGED <<toolCalls, idx, depth>>
     \/ \E e \in Exceptions :
          /\ IF e = "conn"
               THEN /\ messages' = Pop(messages)
                    /\ pc' = "threw"
                    /\ outcome' = NoOutcome
               ELSE Return(messages)
          /\ UNCHANGED <<toolCalls, idx, depth>>
  /\ UNCHANGED <<version, toolUsageFlag, toolErrorCount, mode, recalled, before,
                 events, invoked, turns, http, lastOp, failures, callResults,
                 invokedCalls>>
  /\ UNCHANGED <<wfVars, reqVars, argVars>>

FinalChatUnbounded ==
  /\ pc = "final"
  /\ version = "main"
  /\ offered' = offered \cup {Catalog(mode)}
  /\ \/ \E b \in RepliesFor(Catalog(mode)) :
          IF b # <<>> /\ hasNewTools(b, toolCalls)
            THEN /\ messages' = Push(messages, AssistantMsg)
                 /\ toolCalls' = b
                 /\ idx' = 1
                 /\ depth' = Deeper(depth)
                 /\ pc' = "tools"
                 /\ UNCHANGED outcome
            ELSE /\ Return(Push(messages, AssistantMsg))
                 /\ UNCHANGED <<toolCalls, idx, depth>>
     \/ \E e \in Exceptions :
          /\ IF e = "conn"
               THEN /\ messages' = Pop(messages)
                    /\ pc' = "threw"
                    /\ outcome' = NoOutcome
               ELSE Return(messages)
          /\ UNCHANGED <<toolCalls, idx, depth>>
  /\ UNCHANGED <<version, toolUsageFlag, toolErrorCount, mode, recalled, before,
                 events, invoked, turns, http, lastOp, failures, callResults,
                 invokedCalls>>
  /\ UNCHANGED <<wfVars, reqVars, argVars>>

\* ------------------------------------------------------------ the server

\* POST /api/chat answers: 200 with the reply, 500 when the turn threw. The
\* locals of the turn are gone.
Respond ==
  /\ pc \in {"returned", "threw"}
  /\ http' = IF pc = "returned" THEN 200 ELSE 500
  /\ lastOp' = "chat"
  /\ pc' = "idle"
  /\ toolCalls' = <<>>
  /\ idx' = 0
  /\ depth' = 0
  /\ recalled' = <<>>
  /\ before' = <<>>
  /\ events' = <<>>
  /\ invoked' = <<>>
  /\ outcome' = NoOutcome
  /\ failures' = <<>>
  /\ callResults' = <<>>
  /\ invokedCalls' = <<>>
  /\ UNCHANGED <<version, messages, toolUsageFlag, toolErrorCount, mode, offered,
                 turns>>
  /\ UNCHANGED <<wfVars, reqVars, argVars>>

\* POST /api/chat without a message string: 400, the engine is not called.
ApiChatInvalid ==
  /\ pc = "idle"
  /\ http' = 400
  /\ lastOp' = "chat"
  /\ UNCHANGED <<version, messages, toolUsageFlag, toolErrorCount, mode, pc,
                 toolCalls, idx, depth, recalled, before, events, invoked, offered,
                 outcome, turns>>
  /\ UNCHANGED <<wfVars, reqVars, argVars>>
  /\ UNCHANGED failures
  /\ UNCHANGED <<callResults, invokedCalls>>

\* POST /api/chat/new: chatManager.reset().
ApiChatNew ==
  /\ pc = "idle"
  /\ messages' = reset(version)
  /\ http' = 200
  /\ lastOp' = "new"
  /\ UNCHANGED <<version, toolUsageFlag, toolErrorCount, mode, pc, toolCalls, idx,
                 depth, recalled, before, events, invoked, offered, outcome, turns>>
  /\ UNCHANGED <<wfVars, reqVars, argVars>>
  /\ UNCHANGED failures
  /\ UNCHANGED <<callResults, invokedCalls>>

\* POST /api/chat/mode answering 200 without the call of
\* chatManager.setSystemPromptMode(mode).
ApiChatMode_noCall ==
  /\ pc = "idle"
  /\ \E m \in Modes \cup {"other"} :
       /\ http' = IF m \in Modes THEN 200 ELSE 400
       /\ lastOp' = m
  /\ UNCHANGED <<version, messages, toolUsageFlag, toolErrorCount, mode, pc,
                 toolCalls, idx, depth, recalled, before, events, invoked, offered,
                 outcome, turns>>
  /\ UNCHANGED <<wfVars, reqVars, argVars>>
  /\ UNCHANGED failures
  /\ UNCHANGED <<callResults, invokedCalls>>

\* POST /api/chat/mode: 400 for an unknown mode, else setSystemPromptMode.
ApiChatMode ==
  /\ pc = "idle"
  /\ \E m \in Modes \cup {"other"} :
       IF m \in Modes
         THEN /\ mode' = m
              /\ messages' = setSystemPromptMode(m)
              /\ offered' = {}
              /\ http' = 200
              /\ lastOp' = m
         ELSE /\ http' = 400
              /\ lastOp' = m
              /\ UNCHANGED <<mode, messages, offered>>
  /\ UNCHANGED <<version, toolUsageFlag, toolErrorCount, pc, toolCalls, idx, depth,
                 recalled, before, events, invoked, outcome, turns>>
  /\ UNCHANGED <<wfVars, reqVars, argVars>>
  /\ UNCHANGED failures
  /\ UNCHANGED <<callResults, invokedCalls>>

\* The values of pc at which a turn is suspended at an await.
Suspended == {"recall", "chat", "tools", "final", "repair", "record"}

\* The event loop turns to the other request: the handler that runs is at an
\* await (or has answered), and the other one resumes, or a new request is
\* accepted in its place. The ChatManager's fields are the same for both.
Interleave ==
  /\ switches < MaxSwitches
  /\ pc \in Suspended \/ (pc = "idle" /\ parked.pc # "idle")
  /\ switches' = switches + 1
  /\ parked' = Locals(pc, toolCalls, idx, depth, recalled, before, events,
                      invoked, outcome, failures, callResults, invokedCalls)
  /\ failures' = parked.failures
  /\ callResults' = parked.callResults
  /\ invokedCalls' = parked.invokedCalls
  /\ pc' = parked.pc
  /\ toolCalls' = parked.toolCalls
  /\ idx' = parked.idx
  /\ depth' = parked.depth
  /\ recalled' = parked.recalled
  /\ before' = parked.before
  /\ events' = parked.events
  /\ invoked' = parked.invoked
  /\ outcome' = parked.outcome
  /\ UNCHANGED <<version, messages, toolUsageFlag, toolErrorCount, mode, offered,
                 turns, http, lastOp>>
  /\ UNCHANGED <<wfVars, argVars>>

\* ----------------------------------------------------------- the workflow
\*
\* XappTrainer reads result.toolResults, which handleUserInput of neither
\* ChatManager source returns: to the workflow a turn is its result, one of
\* TurnOutcomes or an exception, and the history is not followed past the
\* reset that starts a run.

\* A tool name as the trigger check reads it: its letters, whether some are
\* upper case, and whether white space surrounds it.
Name(b, u, p) == [base |-> b, upper |-> u, pad |-> p]

\* A string literal of the script: lower case, no white space around it.
Literal(str) == Name(str, FALSE, FALSE)

\* tr.toolName is undefined
NoName == Name("", FALSE, FALSE)

\* String.prototype.trim and toLowerCase
trim(n) == [n EXCEPT !.pad = FALSE]
toLowerCase(n) == [n EXCEPT !.upper = FALSE]

\* An entry of TurnOutcome.toolResults; marks: the names n for which the
\* result text contains  Tool "n".
ToolResult(n, m) == [toolName |-> n, marks |-> m]

\* triggered without the toLowerCase() and trim() of lines 19-20: the name
\* has to be the expected one letter for letter.
triggered_exactName(results, expectedTool) ==
  \E k \in 1..Len(results) :
     \/ results[k].toolName = Literal(expectedTool)
     \/ Literal(expectedTool) \in results[k].marks

\* ensureToolTriggered, lines 18-22: toolResults.some(...)
triggered(results, expectedTool) ==
  \E k \in 1..Len(results) :
     \/ /\ results[k].toolName # NoName
        /\ toLowerCase(trim(results[k].toolName))
             = toLowerCase(trim(Literal(expectedTool)))
     \/ Literal(expectedTool) \in results[k].marks

\* afterAttempt with  i <= retry  for the loop condition: one attempt more.
afterAttempt_oneMore(trig, i) ==
  IF trig THEN "return"
  ELSE IF i + 1 < retry + 1 THEN "retry"
  ELSE "throw"

\* afterAttempt without the early  return  of line 26.
afterAttempt_noEarlyReturn(trig, i) ==
  IF i + 1 < retry THEN "retry"
  ELSE IF trig THEN "return"
  ELSE "throw"

\* afterAttempt without the throw of line 32: the helper just returns.
afterAttempt_noThrow(trig, i) ==
  IF trig THEN "return"
  ELSE IF i + 1 < retry THEN "retry"
  ELSE "return"

\* ensureToolTriggered after attempt number i (0-based) answered: return on a
\* trigger, else the next iteration of  for (i = 0; i < retry; i++), else the
\* throw of line 32.
afterAttempt(trig, i) ==
  IF trig THEN "return"
  ELSE IF i + 1 < retry THEN "retry"
  ELSE "throw"

\* trainXappFlow's script (lines 53-184): the steps with, per prompt, the
\* expected tool ("": none). A step is named by the "Step N" its name begins
\* with; the prompt texts play no part in the control flow.
Entry(t) == [tool |-> t]

steps ==
  << [name |-> "Step 1",  prompts |-> <<Entry("get_kpi_status"), Entry("")>>],
     [name |-> "Step 2",  prompts |-> <<Entry("snapshot_save")>>],
     [name |-> "Step 3",  prompts |-> <<Entry("list_xapps")>>],
     [name |-> "Step 4",  prompts |-> <<Entry("create_xapp")>>],
     [name |-> "Step 5",  prompts |-> <<Entry("get_kpi_status")>>],
     [name |-> "Step 6",  prompts |-> <<Entry("view_config")>>],
     [name |-> "Step 7",  prompts |-> <<Entry("update_config")>>],
     [name |-> "Step 8",  prompts |-> <<Entry("get_kpi_status")>>],
     [name |-> "Step 9",  prompts |-> <<Entry("view_logic")>>],
     [name |-> "Step 10", prompts |-> <<Entry("update_logic")>>],
     [name |-> "Step 11", prompts |-> <<Entry("compile_xapp")>>],
     [name |-> "Step 12", prompts |-> <<Entry("status_all")>>],
     [name |-> "Step 13", prompts |-> <<Entry("stop_xapp")>>],
     [name |-> "Step 14", prompts |-> <<Entry("start_xapp")>>],
     [name |-> "Step 15", prompts |-> <<Entry("snapshot_save")>>],
     [name |-> "Step 16", prompts |-> <<Entry("snapshot_compare")>>] >>

\* The delay put before "Step 2" (the step that caches the baseline KPI).
DelayedStep_baseline == "Step 2"

\* if (step.name === "Step 15: ...") await the 10 minutes
DelayedStep == "Step 15"

\* What handleUserInput may return to the workflow for a prompt whose expected
\* tool is t: no tool result, the tool under several spellings, another tool,
\* another tool whose text quotes t, a result without a name.
OtherTool(t) == IF t = T1 THEN T2 ELSE T1

TurnOutcomes(t) ==
  { <<>>,
    <<ToolResult(Literal(t), {})>>,
    <<ToolResult(Name(t, TRUE, FALSE), {})>>,
    <<ToolResult(Name(t, FALSE, TRUE), {})>>,
    <<ToolResult(Literal(OtherTool(t)), {})>>,
    <<ToolResult(Literal(OtherTool(t)), {Literal(t)})>>,
    <<ToolResult(Literal(OtherTool(t)), {Name(t, TRUE, FALSE)})>>,
    <<ToolResult(NoName, {})>>,
    <<ToolResult(Literal(OtherTool(t)), {}), ToolResult(Literal(t), {})>> }

NoError == [kind |-> "none", tool |-> "", step |-> ""]

InitWorkflow ==
  /\ wf = "idle"
  /\ step = 0
  /\ prompt = 0
  /\ attempt = 0
  /\ calls = 0
  /\ wfResult = <<>>
  /\ wfError = NoError
  /\ resolved = <<>>
  /\ fired = <<>>
  /\ lastSent = <<0, 0>>
  /\ delays = <<>>

\* The for loops of lines 187-205 reach the step st: the delay first when it
\* is the delayed step.
enterStep(st) == IF steps[st].name = DelayedStep THEN "delay" ELSE "prompt"

\* The current prompt is left behind: the next prompt of the step, the next
\* step, or the end of trainXappFlow.
Advance ==
  /\ resolved' = Append(resolved, <<step, prompt>>)
  /\ attempt' = 0
  /\ IF prompt < Len(steps[step].prompts)
       THEN /\ prompt' = prompt + 1
            /\ wf' = "prompt"
            /\ UNCHANGED step
       ELSE IF step < Len(steps)
         THEN /\ step' = step + 1
              /\ prompt' = 1
              /\ wf' = enterStep(step + 1)
         ELSE /\ wf' = "done"
              /\ UNCHANGED <<step, prompt>>

\* The catch of lines 200-203 without its  throw err : the loop goes on.
Abort_noRethrow(err) ==
  /\ wf' = "prompt"
  /\ wfError' = err
  /\ UNCHANGED <<step, prompt, resolved, fired>>

\* catch (err) { console.error(step.name); throw err }: trainXappFlow ends.
Abort(err) ==
  /\ wf' = "failed"
  /\ wfError' = err
  /\ UNCHANGED <<step, prompt, resolved, fired>>

\* POST /api/train -> trainXappFlow up to its first await: chat.reset() and
\* the first step.
trainXappFlow ==
  /\ pc = "idle"
  /\ wf = "idle"
  /\ messages' = reset(version)
  /\ wf' = enterStep(1)
  /\ step' = 1
  /\ prompt' = 1
  /\ attempt' = 0
  /\ calls' = 0
  /\ wfResult' = <<>>
  /\ wfError' = NoError
  /\ resolved' = <<>>
  /\ fired' = <<>>
  /\ lastSent' = <<0, 0>>
  /\ delays' = <<>>
  /\ UNCHANGED <<version, toolUsageFlag, toolErrorCount, mode, pc, toolCalls, idx,
                 depth, recalled, before, events, invoked, offered, outcome, turns,
                 http, lastOp, parked, switches>>
  /\ UNCHANGED argVars
  /\ UNCHANGED failures
  /\ UNCHANGED <<callResults, invokedCalls>>

\* The 10 minutes of line 191 have passed.
Stabilize ==
  /\ wf = "delay"
  /\ wf' = "prompt"
  /\ delays' = Append(delays, step)
  /\ UNCHANGED <<step, prompt, attempt, calls, wfResult, wfError, resolved, fired,
                 lastSent>>
  /\ UNCHANGED <<engineVars, reqVars, argVars>>

\* ensureToolTriggered with a try/catch around the call of handleUserInput
\* in its loop: a turn that throws counts as an attempt that missed.
ensureToolTriggered_catchAsMiss ==
  /\ wf = "prompt"
  /\ steps[step].prompts[prompt].tool # ""
  /\ lastSent' = <<step, prompt>>
  /\ calls' = IF lastSent = <<step, prompt>> THEN calls + 1 ELSE 1
  /\ LET t == steps[step].prompts[prompt].tool IN
       \/ \E r \in TurnOutcomes(t) :
            /\ wfResult' = r
            /\ LET next == afterAttempt(triggered(r, t), attempt) IN
                 CASE next = "return" ->
                        /\ fired' = IF triggered(r, t) THEN Append(fired, t)
                                                       ELSE fired
                        /\ Advance
                        /\ UNCHANGED wfError
                   [] next = "retry" ->
                        /\ attempt' = attempt + 1
                        /\ UNCHANGED <<wf, step, prompt, wfError, resolved, fired>>
                   [] OTHER ->
                        /\ Abort([kind |-> "not triggered", tool |-> t,
                                  step |-> steps[step].name])
                        /\ UNCHANGED attempt
       \/ /\ wfResult' = <<>>
          /\ IF afterAttempt(FALSE, attempt) = "retry"
               THEN /\ attempt' = attempt + 1
                    /\ wfError' = [kind |-> "turn", tool |-> "", step |-> ""]
                    /\ UNCHANGED <<wf, step, prompt, resolved, fired>>
               ELSE /\ Abort([kind |-> "not triggered", tool |-> t,
                              step |-> steps[step].name])
                    /\ UNCHANGED attempt
  /\ UNCHANGED delays
  /\ UNCHANGED <<engineVars, reqVars, argVars>>

\* One iteration of ensureToolTriggered's loop: handleUserInput answers the
\* prompt (or throws); the result decides between return, retry and throw.
ensureToolTriggered ==
  /\ wf = "prompt"
  /\ steps[step].prompts[prompt].tool # ""
  /\ lastSent' = <<step, prompt>>
  /\ calls' = IF lastSent = <<step, prompt>> THEN calls + 1 ELSE 1
  /\ LET t == steps[step].prompts[prompt].tool IN
       \/ \E r \in TurnOutcomes(t) :
            /\ wfResult' = r
            /\ LET next == afterAttempt(triggered(r, t), attempt) IN
                 CASE next = "return" ->
                        /\ fired' = IF triggered(r, t) THEN Append(fired, t)
                                                       ELSE fired
                        /\ Advance
                        /\ UNCHANGED wfError
                   [] next = "retry" ->
                        /\ attempt' = attempt + 1
                        /\ UNCHANGED <<wf, step, prompt, wfError, resolved, fired>>
                   [] OTHER ->
                        /\ Abort([kind |-> "not triggered", tool |-> t,
                                  step |-> steps[step].name])
                        /\ UNCHANGED attempt
       \/ /\ Abort([kind |-> "turn", tool |-> "", step |-> ""])
          /\ wfResult' = <<>>
          /\ UNCHANGED attempt
  /\ UNCHANGED delays
  /\ UNCHANGED <<engineVars, reqVars, argVars>>

\* A prompt without expected tool: handleUserInput once, nothing verified.
plainPrompt ==
  /\ wf = "prompt"
  /\ steps[step].prompts[prompt].tool = ""
  /\ lastSent' = <<step, prompt>>
  /\ calls' = 1
  /\ \/ \E r \in TurnOutcomes(T1) :
          /\ wfResult' = r
          /\ Advance
          /\ UNCHANGED <<wfError, fired>>
     \/ /\ Abort([kind |-> "turn", tool |-> "", step |-> ""])
        /\ wfResult' = <<>>
        /\ UNCHANGED attempt
  /\ UNCHANGED delays
  /\ UNCHANGED <<engineVars, reqVars, argVars>>

\* POST /api/train answers: 200 when trainXappFlow returned, 500 when it threw.
RespondTrain ==
  /\ wf \in {"done", "failed"}
  /\ http' = IF wf = "done" THEN 200 ELSE 500
  /\ lastOp' = "train"
  /\ wf' = "idle"
  /\ UNCHANGED <<step, prompt, attempt, calls, wfResult, wfError, resolved, fired,
                 lastSent, delays>>
  /\ UNCHANGED <<version, messages, toolUsageFlag, toolErrorCount, mode, pc,
                 toolCalls, idx, depth, recalled, before, events, invoked, offered,
                 outcome, turns, parked, switches>>
  /\ UNCHANGED argVars
  /\ UNCHANGED failures
  /\ UNCHANGED <<callResults, invokedCalls>>

\* ---------------------------------------------------- the tool arguments
\*
\* The body of the for loop of handleToolCalls up to callTool (ChatManager.ts
\* lines 190-205, ChatManager_backup_1.ts lines 151-157): parseToolArguments,
\* suggestParameterMapping, fixToolArguments, callTool. The three functions are
\* the same in both sources. ToolManager is not among the sources:
\* suggestParameterMapping follows its description.

\* Rounds of reconciliation of one argument map.
MaxRounds == 2

\* A JavaScript object as Object.entries lists it: its properties in insertion
\* order, the keys distinct.
Prop(k, v) == [key |-> k, value |-> v]

Keys(obj) == {obj[i].key : i \in 1..Len(obj)}

Values(obj) == {obj[i].value : i \in 1..Len(obj)}

\* obj[key], undefined when there is no such property.
Undefined == [undefined |-> TRUE]

Get(obj, k) ==
  IF k \in Keys(obj)
    THEN (CHOOSE e \in Range(obj) : e.key = k).value
    ELSE Undefined

\* obj[key] = v: an existing property keeps its place and takes the value, a
\* new one goes last.
Put(obj, k, v) ==
  IF k \in Keys(obj)
    THEN [i \in 1..Len(obj) |-> IF obj[i].key = k THEN Prop(k, v) ELSE obj[i]]
    ELSE Append(obj, Prop(k, v))

\* A string value of an argument.
Str(x) == [str |-> x]

\* null, as JSON.parse("null") returns it: not an object, told apart from
\* every list of properties.
Null == <<[null |-> TRUE]>>

\* The text of toolCall.function.arguments as JSON.parse reads it: a sequence
\* of tokens.
Tok(t) == [tok |-> t, key |-> NoName, value |-> Str("")]
Pair(k, v) == [tok |-> "pair", key |-> k, value |-> v]

\* JSON.stringify of an object.
Stringify(obj) ==
  <<Tok("{")>> \o [i \in 1..Len(obj) |-> Pair(obj[i].key, obj[i].value)]
    \o <<Tok("}")>>

\* The text is the JSON text of an object, or of null.
IsObjectText(t) ==
  /\ Len(t) >= 2
  /\ t[1].tok = "{"
  /\ t[Len(t)].tok = "}"
  /\ \A i \in 2..Len(t) - 1 : t[i].tok = "pair"

IsNullText(t) == Len(t) = 1 /\ t[1].tok = "null"

\* JSON.parse of a text for which it does not throw; a repeated key keeps its
\* first place and its last value.
RECURSIVE ParsePairs(_, _)
ParsePairs(t, acc) ==
  IF t = <<>> THEN acc
  ELSE ParsePairs(Tail(t), Put(acc, t[1].key, t[1].value))

JSONparse(t) ==
  IF IsNullText(t) THEN Null
  ELSE ParsePairs(SubSeq(t, 2, Len(t) - 1), <<>>)

\* toolCall.function.arguments: an object, or a string.
Obj(o) == [type |-> "object", object |-> o, text |-> <<>>]
Text(t) == [type |-> "string", object |-> <<>>, text |-> t]

\* parseToolArguments without its catch: the SyntaxError of JSON.parse leaves
\* the function.
parseToolArguments_noCatch(a) ==
  IF a.type = "string"
    THEN IF IsObjectText(a.text) \/ IsNullText(a.text)
           THEN [threw |-> FALSE, result |-> JSONparse(a.text)]
           ELSE [threw |-> TRUE, result |-> <<>>]
    ELSE [threw |-> FALSE, result |-> a.object]

\* parseToolArguments: a string is parsed, and wrapped as { value: args } when
\* JSON.parse throws; anything else is returned as it is.
parseToolArguments(a) ==
  IF a.type = "string"
    THEN IF IsObjectText(a.text) \/ IsNullText(a.text)
           THEN [threw |-> FALSE, result |-> JSONparse(a.text)]
           ELSE [threw |-> FALSE,
                 result |-> <<Prop(Literal("value"), [raw |-> a.text])>>]
    ELSE [threw |-> FALSE, result |-> a.object]

\* The declared parameters of a tool (an example schema); none for a tool the
\* catalog does not have.
Schema(t) == IF t = T1 THEN {Literal("path"), Literal("mode")} ELSE {}

\* The fuzzy/alias matching of the reconciler: the part of a key that counts.
Stem(b) == IF b = "file_path" THEN "path" ELSE b

\* Case-insensitive, fuzzy: two keys match when their normal forms agree.
normalize(k) == [toLowerCase(trim(k)) EXCEPT !.base = Stem(@)]

\* suggestParameterMapping(toolName, providedArgs): for every provided key
\* that is not a declared parameter and matches one, the declared parameter.
suggestParameterMapping(t, a) ==
  LET matched(k) == {d \in Schema(t) : normalize(d) = normalize(k)}
      renamed == SelectSeq(a, LAMBDA e : e.key \notin Schema(t) /\ matched(e.key) # {})
  IN [i \in 1..Len(renamed) |->
        Prop(renamed[i].key, CHOOSE d \in matched(renamed[i].key) : TRUE)]

\* fixToolArguments without  || key : a key the mapping does not have becomes
\* the property "undefined".
RECURSIVE fixFrom_noFallback(_, _, _)
fixFrom_noFallback(entries, m, fixed) ==
  IF entries = <<>> THEN fixed
  ELSE LET mappedKey == IF Get(m, entries[1].key) # Undefined
                          THEN Get(m, entries[1].key)
                          ELSE Literal("undefined")
       IN fixFrom_noFallback(Tail(entries), m, Put(fixed, mappedKey, entries[1].value))

\* fixToolArguments, the loop over Object.entries(args):
\* fixedArgs[mappings[key] || key] = value.
RECURSIVE fixFrom(_, _, _)
fixFrom(entries, m, fixed) ==
  IF entries = <<>> THEN fixed
  ELSE LET mappedKey == IF Get(m, entries[1].key) # Undefined
                          THEN Get(m, entries[1].key)
                          ELSE entries[1].key
       IN fixFrom(Tail(entries), m, Put(fixed, mappedKey, entries[1].value))

fixToolArguments(a, m) == fixFrom(a, m, <<>>)

\* The keys and values a model may write into the arguments of a call.
ProvidedKeys ==
  { Literal("path"), Name("path", TRUE, FALSE), Literal("file_path"),
    Literal("mode"), Literal("limit") }

ProvidedValues == {Str("a"), Str("b")}

\* The objects of at most two properties over them.
Objects ==
  {<<>>}
    \cup {<<Prop(k, v)>> : k \in ProvidedKeys, v \in ProvidedValues}
    \cup {o \in {<<Prop(k1, v1), Prop(k2, v2)>> :
                    k1 \in ProvidedKeys, v1 \in ProvidedValues,
                    k2 \in ProvidedKeys, v2 \in ProvidedValues} :
            o[1].key # o[2].key}

\* The texts: the JSON text of an object, one cut short, the empty string,
\* words that are no JSON, and  null.
Texts ==
  {Stringify(o) : o \in Objects}
    \cup {SubSeq(Stringify(o), 1, Len(o) + 1) : o \in Objects}
    \cup {<<>>, <<Tok("word")>>, <<Tok("null")>>}

RawArguments == {Obj(o) : o \in Objects} \cup {Text(t) : t \in Texts}

UnknownTool == "no_such_tool"

InitNoCall ==
  /\ stage = "none"
  /\ tool = ""
  /\ rawArgs = Obj(<<>>)
  /\ args = <<>>
  /\ mappings = <<>>
  /\ fixedArgs = <<>>
  /\ prevFixed = <<>>
  /\ round = 0
  /\ sent = <<>>

\* A tool call of a model reply reaches the loop.
InitCall ==
  /\ stage = "raw"
  /\ tool \in {T1, UnknownTool}
  /\ rawArgs \in RawArguments
  /\ args = <<>>
  /\ mappings = <<>>
  /\ fixedArgs = <<>>
  /\ prevFixed = <<>>
  /\ round = 0
  /\ sent = <<>>

\* const args = this.parseToolArguments(toolCall.function.arguments)
ParseArguments ==
  /\ stage = "raw"
  /\ LET r == parseToolArguments(rawArgs) IN
       IF r.threw
         THEN stage' = "threw" /\ UNCHANGED <<args, round>>
         ELSE stage' = "parsed" /\ args' = r.result /\ round' = 1
  /\ UNCHANGED <<tool, rawArgs, mappings, fixedArgs, prevFixed, sent>>
  /\ UNCHANGED <<engineVars, wfVars, reqVars>>

\* const parameterMappings = suggestParameterMapping(name, args);
\* const fixedArgs = this.fixToolArguments(args, parameterMappings).
\* Object.entries(null) throws a TypeError, if the reconciler has not.
Reconcile ==
  /\ stage = "parsed"
  /\ IF args = Null
       THEN stage' = "threw" /\ UNCHANGED <<mappings, fixedArgs>>
       ELSE /\ mappings' = suggestParameterMapping(tool, args)
            /\ fixedArgs' = fixToolArguments(args, suggestParameterMapping(tool, args))
            /\ stage' = "fixed"
  /\ UNCHANGED <<tool, rawArgs, args, prevFixed, round, sent>>
  /\ UNCHANGED <<engineVars, wfVars, reqVars>>

\* await this.toolManager.callTool(toolCall.function.name, fixedArgs)
InvokeTool ==
  /\ stage = "fixed"
  /\ round = 1
  /\ sent' = Append(sent, [name |-> tool, arguments |-> fixedArgs])
  /\ stage' = "called"
  /\ UNCHANGED <<tool, rawArgs, args, mappings, fixedArgs, prevFixed, round>>
  /\ UNCHANGED <<engineVars, wfVars, reqVars>>

\* The reconciled arguments come back as the arguments of a call of the same
\* tool and are reconciled again.
ReconcileAgain ==
  /\ stage = "called"
  /\ round < MaxRounds
  /\ round' = round + 1
  /\ prevFixed' = fixedArgs
  /\ args' = fixedArgs
  /\ mappings' = suggestParameterMapping(tool, fixedArgs)
  /\ fixedArgs' = fixToolArguments(fixedArgs, suggestParameterMapping(tool, fixedArgs))
  /\ stage' = "fixed"
  /\ UNCHANGED <<tool, rawArgs, sent>>
  /\ UNCHANGED <<engineVars, wfVars, reqVars>>

\* ---------------------------------------------------------- specifications

vars == <<engineVars, wfVars, reqVars, argVars>>

NextBackup ==
  \/ ApiChatNew
  \/ ApiChatMode
  \/ ApiChatInvalid
  \/ handleUserInput
  \/ Respond
  \/ Recall
  \/ FirstChat
  \/ CallTool
  \/ FinalChat
  \/ RecordResult

NextMain ==
  \/ ApiChatNew
  \/ ApiChatMode
  \/ ApiChatInvalid
  \/ handleUserInput
  \/ Respond
  \/ Recall
  \/ FirstChat
  \/ CallToolMain
  \/ RepairChat
  \/ FinalChatMain

\* The backup's server with two requests in flight.
NextConcurrent ==
  \/ Interleave
  \/ ApiChatNew
  \/ handleUserInput
  \/ Respond
  \/ Recall
  \/ FirstChat
  \/ CallTool
  \/ FinalChat
  \/ RecordResult

\* ChatManager.ts with the recursion of handleToolCalls left open.
NextUnbounded ==
  \/ handleUserInput
  \/ Respond
  \/ Recall
  \/ FirstChat
  \/ CallToolUnbounded
  \/ RepairChatUnbounded
  \/ FinalChatUnbounded

\* A step of a turn in progress: the request it awaits answers or throws.
TurnStep ==
  \/ Recall
  \/ FirstChat
  \/ CallToolUnbounded
  \/ RepairChatUnbounded
  \/ FinalChatUnbounded

NextArguments ==
  \/ ParseArguments
  \/ Reconcile
  \/ InvokeTool
  \/ ReconcileAgain

NextTrain ==
  \/ trainXappFlow
  \/ Stabilize
  \/ ensureToolTriggered
  \/ plainPrompt
  \/ RespondTrain

InitBackup == InitEngine("backup") /\ InitWorkflow /\ InitNoCall

InitMain == InitEngine("main") /\ InitWorkflow /\ InitNoCall

InitTrain ==
  (\E v \in {"main", "backup"} : InitEngine(v)) /\ InitWorkflow /\ InitNoCall

InitArguments ==
  (\E v \in {"main", "backup"} : InitEngine(v)) /\ InitWorkflow /\ InitCall

SpecBackup == InitBackup /\ [][NextBackup]_vars

SpecMain == InitMain /\ [][NextMain]_vars

SpecTrain == InitTrain /\ [][NextTrain]_vars

SpecConcurrent == InitBackup /\ [][NextConcurrent]_vars

SpecArguments == InitArguments /\ [][NextArguments]_vars

\* Every request a turn awaits is answered, or fails, in the end.
SpecUnbounded == InitMain /\ [][NextUnbounded]_vars /\ WF_vars(TurnStep)

\* ------------------------------------------------------------ the claims

\* The messages of s that are not tool messages of the turn in progress.
WithoutOwnTools(s) == SelectSeq(s, LAMBDA m : ~(IsTool(m) /\ m.own))

\* C1: when a turn throws, the history is the history the turn started with,
\* apart from the messages of the tools the turn already executed.
C1_FailedTurnRestoresHistory ==
  pc = "threw" => WithoutOwnTools(messages) = before

\* The expected tool of the entry <<step, prompt>> of the script.
ExpectedOf(e) == steps[e[1]].prompts[e[2]].tool

\* The entries of the script from step st on, in order.
RECURSIVE EntriesFrom(_)
EntriesFrom(st) ==
  IF st > Len(steps) THEN <<>>
  ELSE [k \in 1..Len(steps[st].prompts) |-> <<st, k>>] \o EntriesFrom(st + 1)

Script == EntriesFrom(1)

\* The expected tools of a sequence of entries, in order.
RECURSIVE ToolsOf(_)
ToolsOf(es) ==
  IF es = <<>> THEN <<>>
  ELSE (IF ExpectedOf(es[1]) = "" THEN <<>> ELSE <<ExpectedOf(es[1])>>)
         \o ToolsOf(Tail(es))

\* A prompt with an expected tool has been sent and is not left behind yet.
Retrying ==
  /\ wf = "prompt"
  /\ lastSent = <<step, prompt>>
  /\ ExpectedOf(lastSent) # ""

\* C2: an expected tool that no attempt triggers is asked for exactly retry
\* times, never more, and then ensureToolTriggered throws an error that names
\* the tool and the step; it does not return.
C2_RetryExhaustion ==
  /\ calls <= retry
  /\ Retrying => calls < retry /\ ~triggered(wfResult, ExpectedOf(lastSent))
  /\ wfError.kind = "not triggered" =>
       /\ wf \in {"failed", "idle"}
       /\ calls = retry
       /\ ~triggered(wfResult, ExpectedOf(lastSent))
       /\ wfError.tool = ExpectedOf(lastSent)
       /\ wfError.step = steps[lastSent[1]].name
       /\ lastSent \notin Range(resolved)

C2_Witness ==
  /\ wf = "failed"
  /\ wfError.kind = "not triggered"
  /\ wfError.tool = "create_xapp"
  /\ calls = retry

\* C3: the attempt that shows the expected tool triggered is the last one for
\* its prompt: ensureToolTriggered has returned, after as many calls of
\* handleUserInput as attempts were needed, and a trigger on the first
\* attempt leaves one call.
C3_EarlyStop ==
  (/\ lastSent # <<0, 0>>
   /\ ExpectedOf(lastSent) # ""
   /\ triggered(wfResult, ExpectedOf(lastSent)))
  => /\ resolved # <<>>
     /\ Last(resolved) = lastSent
     /\ wfError = NoError
     /\ calls \in 1..retry
     /\ (wf = "prompt" => lastSent # <<step, prompt>>)

C3_Witness ==
  /\ resolved # <<>>
  /\ Last(resolved) = lastSent
  /\ ExpectedOf(lastSent) # ""
  /\ triggered(wfResult, ExpectedOf(lastSent))
  /\ calls = 2
  /\ wf = "prompt"

\* C4: prompts are sent in script order, each only when every earlier entry
\* is left behind; an entry with an expected tool is left behind only by an
\* attempt that showed the tool triggered; a run that completes has seen
\* every expected tool of the script, in order.
C4_TriggerBeforeAdvance ==
  /\ Len(resolved) <= Len(Script)
  /\ resolved = SubSeq(Script, 1, Len(resolved))
  /\ fired = ToolsOf(resolved)
  /\ lastSent # <<0, 0>> =>
       \/ resolved # <<>> /\ lastSent = Last(resolved)
       \/ Len(resolved) < Len(Script) /\ lastSent = Script[Len(resolved) + 1]
  /\ wf = "done" => resolved = Script /\ fired = ToolsOf(Script)

C4_Witness == wf = "done" /\ Len(fired) = 16

\* C5: a failed entry ends the run: the error leaves trainXappFlow, the entry
\* that failed is the last one whose prompt was sent, and POST /api/train
\* answers 500, not 200.
C5_AbortOnFailure ==
  /\ wfError # NoError =>
       /\ wf \in {"failed", "idle"}
       /\ lastSent = <<step, prompt>>
       /\ lastSent \notin Range(resolved)
       /\ Len(resolved) < Len(Script)
       /\ lastSent = Script[Len(resolved) + 1]
       /\ (wf = "idle" => lastOp = "train" /\ http = 500)
  /\ (lastOp = "train" /\ wf = "idle" /\ http = 200) =>
       wfError = NoError /\ resolved = Script

C5_Witness ==
  /\ wf = "idle"
  /\ lastOp = "train"
  /\ http = 500
  /\ wfError.kind = "turn"
  /\ Len(resolved) = 3

\* C6: after reset() the history is the seeded system prompt alone, the
\* tool-used flag is false and the tool error counter is zero.
C6_ResetPostcondition ==
  lastOp = "new" =>
    /\ messages = <<SystemMsg(SeedPrompt)>>
    /\ toolUsageFlag = FALSE
    /\ toolErrorCount = 0

\* C7: every tool result of a returned turn is the message of a tool the
\* turn itself invoked, never a tool message an earlier turn appended.
C7_NoCrossTurnLeak ==
  pc = "returned" =>
    \A k \in 1..Len(outcome.toolResults) :
       /\ outcome.toolResults[k].own
       /\ outcome.toolResults[k].tool_call_id \in Range(invoked)

\* A turn returned tool results from a compressed history that still holds a
\* tool message of the turn before.
C7_Witness ==
  /\ pc = "returned"
  /\ outcome.toolResults # <<>>
  /\ messages[1] = SummaryMsg
  /\ \E k \in 1..Len(messages) : IsTool(messages[k]) /\ ~messages[k].own

\* C8: a turn whose reply carries no tool call invokes no tool, appends no
\* tool message, returns no tool result and sends exactly one outcome event,
\* with success false and tool_used false.
C8_TurnWithoutToolCalls ==
  (pc \in {"record", "returned"} /\ toolCalls = <<>>) =>
    /\ invoked = <<>>
    /\ \A k \in 1..Len(messages) : ~(IsTool(messages[k]) /\ messages[k].own)
    /\ outcome.toolResults = <<>>
    /\ Len(events) = 1
    /\ events[1].success = FALSE
    /\ events[1].tool_used = FALSE

\* Such a turn returned, after a turn that used a tool whose result was an
\* error.
C8_Witness ==
  /\ pc = "returned"
  /\ toolCalls = <<>>
  /\ \E k \in 1..Len(messages) :
       IsTool(messages[k]) /\ messages[k].content = "error"

\* C9: the context message is pushed exactly when the recall request
\* returned a document of certainty 0.75 or more.
C9_CertaintyThreshold ==
  pc = "chat" =>
    (Last(messages) = ContextMsg
       <=> \E k \in 1..Len(recalled) : recalled[k] >= CertaintyThreshold)

IsPrefix(p, q) == Len(p) <= Len(q) /\ p = SubSeq(q, 1, Len(p))

IsSuffix(p, q) == Len(p) <= Len(q) /\ p = SubSeq(q, Len(q) - Len(p) + 1, Len(q))

\* The messages of s the turn in progress appended, and the others.
Own(s) == SelectSeq(s, LAMBDA m : m.own)
NotOwn(s) == SelectSeq(s, LAMBDA m : ~m.own)

C12_RecordingNeverAborts ==
  [][pc = "record" =>
       /\ pc' = "returned"
       /\ outcome'.reply = AssistantMsg.content
       /\ Last(messages') = Last(messages)]_vars

\* C13: at most one request is in progress on the ChatManager, and the
\* messages after those a suspended turn started with are the turn's own.
C13_OneFlowAtATime ==
  /\ pc = "idle" \/ parked.pc = "idle"
  /\ pc \in Suspended =>
       /\ IsPrefix(before, messages)
       /\ \A k \in Len(before) + 1..Len(messages) : messages[k].own

\* The key under which fixToolArguments is to put the value of the key k.
Corrected(k) == IF Get(mappings, k) # Undefined THEN Get(mappings, k) ELSE k

\* C14: the corrected arguments have as many entries as the provided ones,
\* every provided value is found under its corrected key, and no value is
\* found that was not provided.
C14_NoValueDroppedOrFabricated ==
  stage \in {"fixed", "called"} =>
    /\ Len(fixedArgs) = Len(args)
    /\ \A i \in 1..Len(args) :
         Get(fixedArgs, Corrected(args[i].key)) = args[i].value
    /\ Values(fixedArgs) \subseteq Values(args)

\* C15: arguments whose keys are all declared parameters of the tool get an
\* empty rename table and come back unchanged, and reconciling reconciled
\* arguments again returns them unchanged.
C15_ReconciliationIdempotent ==
  /\ (stage \in {"fixed", "called"} /\ Keys(args) \subseteq Schema(tool)) =>
       mappings = <<>> /\ fixedArgs = args
  /\ (stage = "fixed" /\ round > 1) =>
       fixedArgs = prevFixed /\ mappings = <<>>

\* Arguments with a key that the first round renamed have been reconciled a
\* second time.
C15_Witness ==
  /\ stage = "fixed"
  /\ round = 2
  /\ rawArgs.type = "object"
  /\ Len(rawArgs.object) = 2
  /\ ~(Keys(rawArgs.object) \subseteq Schema(tool))
  /\ Keys(fixedArgs) \subseteq Schema(tool)
  /\ Len(fixedArgs) = 2

\* The text is no JSON: JSON.parse throws.
Unparseable(a) ==
  a.type = "string" /\ ~IsObjectText(a.text) /\ ~IsNullText(a.text)

Wrapped(a) == <<Prop(Literal("value"), [raw |-> a.text])>>

\* C16: arguments given as text that is no JSON become { value: text }, the
\* call goes on to the tool with them and nothing is thrown; arguments given
\* as an object are the parsed arguments, unchanged.
C16_UnparseableArgumentsWrapped ==
  /\ Unparseable(rawArgs) =>
       /\ stage # "threw"
       /\ (stage # "raw" /\ round = 1) => args = Wrapped(rawArgs)
       /\ stage = "called" =>
            sent = <<[name |-> tool, arguments |-> Wrapped(rawArgs)]>>
  /\ (rawArgs.type = "object" /\ stage # "raw" /\ round = 1) =>
       args = rawArgs.object

\* A JSON text cut short went to the tool as { value: text }.
C16_Witness ==
  /\ Unparseable(rawArgs)
  /\ Len(rawArgs.text) = 2
  /\ stage = "called"
  /\ sent = <<[name |-> T1, arguments |-> Wrapped(rawArgs)]>>

\* The awaits of a turn that are model calls or tool invocations.
ModelOrTool == {"chat", "tools", "repair", "final"}

\* C17: a model call or tool invocation of the turn that fails at the
\* connection level makes handleUserInput throw, after the pop of the catch;
\* the turn does not return.
C17_ConnectionFailureFatal ==
  \A k \in 1..Len(failures) :
     (failures[k].at \in ModelOrTool /\ failures[k].kind \in ConnectionLevel) =>
        pc = "threw" /\ outcome = NoOutcome

\* The same of the refused connection alone (cause.code = ECONNREFUSED).
RefusedConnectionFatal ==
  \A k \in 1..Len(failures) :
     (failures[k].at \in ModelOrTool /\ failures[k].kind = "conn") =>
        pc = "threw" /\ outcome = NoOutcome

\* The tool messages of the turn in progress, and those of an error result.
OwnTools(s) == SelectSeq(s, LAMBDA m : IsTool(m) /\ m.own)
OwnErrors(s) == SelectSeq(s, LAMBDA m : IsTool(m) /\ m.own /\ m.content = "error")

\* The names of the first n requests of a batch.
NamesOf(b, n) == [k \in 1..n |-> b[k].name]

\* C18: while a batch is processed the error counter is the number of error
\* results so far, each with its tool message; the requests are invoked one
\* after the other whatever their results, all of them before the follow-up
\* model call; and only an exception, never an error result, makes the turn
\* throw.
C18_ErrorDoesNotCutBatch ==
  /\ (pc \in {"tools", "repair", "final", "record", "returned"} /\ toolCalls # <<>>) =>
       /\ toolErrorCount = Len(OwnErrors(messages))
       /\ failures = <<>> =>
            /\ idx - 1 <= Len(invoked)
            /\ SubSeq(invoked, Len(invoked) - (idx - 1) + 1, Len(invoked))
                 = NamesOf(toolCalls, idx - 1)
  /\ (pc \in {"final", "record", "returned"} /\ toolCalls # <<>> /\ failures = <<>>) =>
       idx = Len(toolCalls) + 1
  /\ pc = "threw" => failures # <<>>

\* The replies of the model that the turn in progress appended.
OwnReplies(s) == SelectSeq(s, LAMBDA m : m.own /\ m.role = "assistant")

\* C19: the follow-up model call of a batch is awaited only when every
\* request of the batch has been processed and nothing is recorded yet; a
\* turn with tool calls ends with the first reply, the tool messages, and one
\* follow-up reply as its last message, and with exactly one outcome event,
\* a success.
C19_OneFollowUpPerBatch ==
  /\ pc = "final" =>
       /\ idx = Len(toolCalls) + 1
       /\ Len(invoked) >= Len(toolCalls)
       /\ events = <<>>
  /\ (pc \in {"record", "returned"} /\ toolCalls # <<>> /\ failures = <<>>) =>
       LET n == Len(messages)
           t == Len(OwnTools(messages))
       IN /\ Len(OwnReplies(messages)) = 2
          /\ messages[n] = AssistantMsg
          /\ \A k \in n - t..n - 1 : IsTool(messages[k])
          /\ messages[n - t - 1] = AssistantMsg
          /\ Len(invoked) = Len(toolCalls)
          /\ events = <<recordResult(TRUE, TRUE, toolErrorCount)>>

\* The invocations of the turn that returned a result: name and result.
RECURSIVE Produced(_, _)
Produced(names, outs) ==
  IF names = <<>> THEN <<>>
  ELSE (IF outs[1] = "undefined" THEN <<>>
        ELSE <<[name |-> names[1], result |-> outs[1]]>>)
         \o Produced(Tail(names), Tail(outs))

\* The tool messages of the turn: the name and the result each carries.
Carried(s) ==
  [k \in 1..Len(OwnTools(s)) |->
     [name |-> OwnTools(s)[k].tool_call_id, result |-> OwnTools(s)[k].content]]

\* C20: the tool messages the turn appended are, one for one and in order,
\* the invocations of the turn that returned a result, each under the name of
\* its tool; an invocation that returned undefined has none. (After the pop of
\* the catch the last of them may be gone.)
C20_ToolMessagesTraceable ==
  /\ Len(callResults) = Len(invoked)
  /\ pc \in Suspended \cup {"returned"} =>
       Carried(messages) = Produced(invoked, callResults)
  /\ pc = "threw" =>
       IsPrefix(Carried(messages), Produced(invoked, callResults))

\* A turn returned after three invocations: one gave a result, one an error
\* and one was undefined.
C20_Witness ==
  /\ pc = "returned"
  /\ Len(Carried(messages)) = 1
  /\ Len(invoked) = 2
  /\ callResults = <<"undefined", "error">>

\* The step that starts the new xApp, and the one after it, which caches the
\* fresh KPI.
StartNewXapp ==
  CHOOSE st \in 1..Len(steps) : steps[st].prompts[1].tool = "start_xapp"

CacheFreshKPI == StartNewXapp + 1

\* C21: the delay is waited at most once in a run and exactly once in a run
\* that gets past it; it starts only when the step that starts the new xApp
\* is left behind with its tool triggered, before any prompt of the step that
\* caches the fresh KPI; no prompt of that step or of a later one is sent
\* before the delay has elapsed; no other step waits.
C21_StabilizationGate ==
  /\ Len(delays) <= 1
  /\ \A k \in 1..Len(delays) : delays[k] = CacheFreshKPI
  /\ wf = "delay" =>
       /\ step = CacheFreshKPI
       /\ delays = <<>>
       /\ resolved # <<>>
       /\ Last(resolved) = <<StartNewXapp, Len(steps[StartNewXapp].prompts)>>
       /\ Last(fired) = "start_xapp"
       /\ lastSent = Last(resolved)
  /\ delays # <<>> =>
       <<StartNewXapp, Len(steps[StartNewXapp].prompts)>> \in Range(resolved)
  /\ (lastSent # <<0, 0>> /\ lastSent[1] >= CacheFreshKPI) =>
       delays = <<CacheFreshKPI>>
  /\ (lastSent[1] < CacheFreshKPI /\ wf # "delay" /\ step < CacheFreshKPI) =>
       delays = <<>>
  /\ wf = "done" => delays = <<CacheFreshKPI>>

\* The delay has elapsed and the prompt that caches the fresh KPI is sent.
C21_Witness ==
  /\ delays = <<CacheFreshKPI>>
  /\ lastSent = <<CacheFreshKPI, 1>>
  /\ wf = "prompt"
  /\ step = CacheFreshKPI + 1

\* The name n is the tool t, ignoring case and surrounding white space.
SameTool(n, t) == n # NoName /\ n.base = t

\* The result text of r contains the marker  Tool "t".
HasMarker(r, t) == Literal(t) \in r.marks

\* The last attempt made for the last prompt sent counted as a success:
\* ensureToolTriggered returned and the entry is left behind.
Succeeded == resolved # <<>> /\ Last(resolved) = lastSent

\* C22: an attempt for the expected tool t counts as a success exactly when
\* some tool result of its turn is named t, ignoring case and surrounding
\* white space, or has a text with the marker  Tool "t"; a turn without tool
\* results, or with results of other tools without the marker, does not.
C22_TriggerPredicate ==
  (lastSent # <<0, 0>> /\ ExpectedOf(lastSent) # "") =>
    (Succeeded <=>
       \E k \in 1..Len(wfResult) :
          \/ SameTool(wfResult[k].toolName, ExpectedOf(lastSent))
          \/ HasMarker(wfResult[k], ExpectedOf(lastSent)))

\* A success by the marker alone, in the result of another tool.
C22_Witness ==
  /\ Succeeded
  /\ ExpectedOf(lastSent) # ""
  /\ Len(wfResult) = 1
  /\ ~SameTool(wfResult[1].toolName, ExpectedOf(lastSent))
  /\ HasMarker(wfResult[1], ExpectedOf(lastSent))

\* A success by the name alone, written in upper case.
C22_WitnessName ==
  /\ Succeeded
  /\ ExpectedOf(lastSent) # ""
  /\ Len(wfResult) = 1
  /\ wfResult[1].toolName.upper
  /\ wfResult[1].marks = {}

\* C23: a turn that throws ends the run at once: the error leaves
\* trainXappFlow, the entry is not left behind, the call that threw is the
\* last one made for it (one more than the retries consumed before it) and
\* POST /api/train answers 500; a retry is consumed only by a turn that
\* returned without the expected tool having triggered.
C23_ExceptionNotRetried ==
  /\ wfError.kind = "turn" =>
       /\ wf \in {"failed", "idle"}
       /\ lastSent = <<step, prompt>>
       /\ lastSent \notin Range(resolved)
       /\ wfResult = <<>>
       /\ (ExpectedOf(lastSent) # "" => calls = attempt + 1)
       /\ (wf = "idle" => lastOp = "train" /\ http = 500)
  /\ Retrying =>
       /\ wfError = NoError
       /\ attempt = calls
       /\ ~triggered(wfResult, ExpectedOf(lastSent))
  /\ attempt > 0 => lastSent = <<step, prompt>> /\ ExpectedOf(lastSent) # ""

\* The second attempt for an expected tool threw, after one miss.
C23_Witness ==
  /\ wf = "failed"
  /\ wfError.kind = "turn"
  /\ ExpectedOf(lastSent) # ""
  /\ attempt = 1
  /\ calls = 2

\* C24: a tool call that returned an error is not invoked again in the same
\* turn with the same name and the same arguments.
C24_NoIdenticalReinvocation ==
  \A i \in 1..Len(invokedCalls) : \A j \in 1..Len(invokedCalls) :
     (i < j /\ callResults[i] = "error") => invokedCalls[j] # invokedCalls[i]

\* C25: every turn that starts ends: handleUserInput returns or throws.
C25_EveryTurnTerminates ==
  (pc = "recall") ~> (pc \in {"returned", "threw"})

\* C26: when handleUserInput returns, the last message of the history is an
\* assistant message the turn itself appended, and the reply is its content.
C26_ReplyIsTheModels ==
  pc = "returned" =>
    /\ messages # <<>>
    /\ Last(messages).role = "assistant"
    /\ Last(messages).own
    /\ outcome.reply = Last(messages).content

\* The tool results of the turn that signalled an error.
ErrorResults == {k \in 1..Len(callResults) : callResults[k] = "error"}

\* C27: every outcome event of a turn reports tool_used true exactly when
\* the reply of the model carried a tool call, and as tool_errors the number
\* of the turn's own tool results that signalled an error, whatever the turn
\* before left in the two fields.
C27_PerTurnCounters ==
  \A k \in 1..Len(events) :
     /\ events[k].tool_used = (toolCalls # <<>>)
     /\ events[k].tool_errors = Cardinality(ErrorResults)

\* A turn without tool calls recorded its outcome after a turn whose tool
\* returned an error.
C27_Witness ==
  /\ turns = 2
  /\ Len(events) = 1
  /\ events[1].tool_used = FALSE
  /\ events[1].tool_errors = 0
  /\ \E k \in 1..Len(messages) :
       /\ IsTool(messages[k])
       /\ ~messages[k].own
       /\ messages[k].content = "error"

\* A turn with two tool calls, one of which returned an error, recorded its
\* outcome.
C27_WitnessError ==
  /\ Len(events) = 1
  /\ events[1].tool_used
  /\ events[1].tool_errors = 1
  /\ Len(callResults) = 2

====
